---- MODULE Spec2Model ----
(***************************************************************************)
(* A model of e5tool.py, the ERA5 download tool: the completeness test of  *)
(* a yearly file, the fetch orchestrator with its parsl thread pool jobs,  *)
(* and the CSV assembly loop.                                              *)
(***************************************************************************)
EXTENDS Integers, Sequences, FiniteSets, TLC

\* ------------------------------------------------------------- constants

\* first year of the ERA5 archive
ERA5_START_YR == 1940

\* size of the parsl thread pool
num_parallel_downloads == 5

\* ---------------------------------------------------------------- bounds

\* a download run has its cutoff in one of the first MaxYears years of the
\* archive, a CSV run in one of the first MaxCsvYears
MaxYears == 2
MaxCsvYears == 3

\* the long names that can be requested, and the request lists tried
VarA == "2m_temperature"
VarB == "total_precipitation"
Vars == {VarA, VarB}
Requests == {<<VarA>>, <<VarA, VarB>>}

\* the longest request list
MaxPasses == 2

\* the name tables tried: complete, or with no entry for VarA
NameTables == {Vars, {VarB}}

DlYears == ERA5_START_YR .. (ERA5_START_YR + MaxYears - 1)
CsvYears == ERA5_START_YR .. (ERA5_START_YR + MaxCsvYears - 1)
\* one more year than the pool has threads: a pass that submits an app for
\* each of them has more apps than threads
PoolYears == ERA5_START_YR .. (ERA5_START_YR + num_parallel_downloads)
Years == DlYears \cup CsvYears

\* --------------------------------------------------- datetime (library)

\* Python's datetime: the proleptic Gregorian calendar
IsLeap(y) == (y % 4 = 0) /\ ((y % 100 # 0) \/ (y % 400 = 0))

DaysInMonth(y, m) ==
    IF m = 2 THEN (IF IsLeap(y) THEN 29 ELSE 28)
    ELSE IF m \in {4, 6, 9, 11} THEN 30 ELSE 31

\* days of the years before year y, counted from year 1
DaysBeforeYear(y) ==
    LET p == y - 1 IN p * 365 + (p \div 4) - (p \div 100) + (p \div 400)

\* days of the months of year y before month m
DaysBeforeMonth(y, m) ==
    <<0, 31, 59, 90, 120, 151, 181, 212, 243, 273, 304, 334>>[m]
      + (IF m > 2 /\ IsLeap(y) THEN 1 ELSE 0)

\* a datetime value at a whole hour, UTC
DT(y, m, d, h) == [year |-> y, month |-> m, day |-> d, hour |-> h]

\* hours from 0001-01-01 00:00 to dt
HoursOf(dt) ==
    (DaysBeforeYear(dt.year) + DaysBeforeMonth(dt.year, dt.month) + (dt.day - 1)) * 24
      + dt.hour

\* dt1 - dt2 as a timedelta, in whole hours
HoursBetween(dt1, dt2) == HoursOf(dt1) - HoursOf(dt2)

\* dt + timedelta(hours=1) on a calendar whose February has 28 days
AddHour_no_leap_day(dt) ==
    IF dt.hour < 23 THEN [dt EXCEPT !.hour = dt.hour + 1]
    ELSE IF dt.day < (IF dt.month = 2 THEN 28 ELSE DaysInMonth(dt.year, dt.month))
         THEN [dt EXCEPT !.hour = 0, !.day = dt.day + 1]
    ELSE IF dt.month < 12
         THEN [dt EXCEPT !.hour = 0, !.day = 1, !.month = dt.month + 1]
    ELSE DT(dt.year + 1, 1, 1, 0)

\* dt + timedelta(hours=1)
AddHour(dt) ==
    IF dt.hour < 23 THEN [dt EXCEPT !.hour = dt.hour + 1]
    ELSE IF dt.day < DaysInMonth(dt.year, dt.month)
         THEN [dt EXCEPT !.hour = 0, !.day = dt.day + 1]
    ELSE IF dt.month < 12
         THEN [dt EXCEPT !.hour = 0, !.day = 1, !.month = dt.month + 1]
    ELSE DT(dt.year + 1, 1, 1, 0)

\* dt1 <= dt2
DtLeq(dt1, dt2) ==
    \/ dt1.year < dt2.year
    \/ dt1.year = dt2.year /\ dt1.month < dt2.month
    \/ dt1.year = dt2.year /\ dt1.month = dt2.month /\ dt1.day < dt2.day
    \/ dt1.year = dt2.year /\ dt1.month = dt2.month /\ dt1.day = dt2.day
         /\ dt1.hour <= dt2.hour

\* ------------------------------------------------------- pure functions

hours_in_year(year) ==
    LET is_leap == (year % 4 = 0 /\ year % 100 # 0) \/ (year % 400 = 0)
    IN IF is_leap THEN 24 * 366 ELSE 24 * 365

\* max_hours with the embargo branch taken for every year up to the cutoff's
max_hours_by_file_year(year, dtend) ==
    IF year <= dtend.year
    THEN HoursBetween(dtend, DT(year, 1, 1, 0))
    ELSE hours_in_year(year)

\* max_hours with the embargo branch left out
max_hours_full_year(year, dtend) == hours_in_year(year)

\* max_hours of download_is_complete: the samples the archive can hold for
\* the year when the newest data available is dt_end
max_hours(year, dtend) ==
    IF year = dtend.year
    THEN HoursBetween(dtend, DT(dtend.year, 1, 1, 0))
    ELSE hours_in_year(year)

\* download_is_complete with > for >=
download_is_complete_strict(num_hours, year, dtend) == num_hours > max_hours(year, dtend)

\* download_is_complete on a file that opens and holds num_hours samples
download_is_complete(num_hours, year, dtend) == num_hours >= max_hours(year, dtend)

\* ----------------------------------------------------------------- state

VARIABLES
    e5_vars,             \* main: the requested long names, in request order
    era5_names,          \* the long names the name table has an entry for
    dt_end,              \* main: the newest data the archive can be asked for
    files,               \* the canonical files <loc_path>/<var>_<year>.nc
    tempdl,              \* the combined downloads <canonical path>.tempdl
    tempxds,             \* the strip outputs <canonical path>.tempxds
    pc,                  \* where the main thread is
    e5_idx,              \* download_era5: index of e5_var in e5_vars
    year,                \* download_era5: the year being examined
    e5_vars_todownload,  \* download_era5: the variables not yet downloaded
    jobs,                \* every download_era5_year app submitted to parsl
    lfut,                \* download_era5: the futures of the current pass
    wait_idx,            \* download_era5: the future result() is waiting on
    reported,            \* the variables 'done downloading' was printed for
    nretrieve,           \* history: the number of cds.retrieve calls issued
    pre,                 \* history: what was at an app's canonical paths when
                         \* it started, recorded by SpecCrash only
    csv_year,            \* create_csv: the year being written
    rds_offset,          \* create_csv: hour_offset of each variable's file
    rds_size,            \* create_csv: valid_time.size of each variable's file
    this_hour_dt,        \* create_csv: the hour being written
    hour_idx,            \* create_csv: its index in the year
    csv_line,            \* the last line printed to the CSV file
    csv_rows,            \* history: the records printed for csv_year
    csv_nulls,           \* history: the nulls printed for csv_year, by variable
    chk,                 \* a stored file and the answers download_is_complete
                         \* gave for it, as the cutoff moves from run to run
    loc                  \* main: the requested point, the grid point it is
                         \* snapped to, and the area form_cds_request asks for

vars_dl == <<e5_vars, era5_names, dt_end, files, tempdl, tempxds, pc, e5_idx, year,
             e5_vars_todownload, jobs, lfut, wait_idx, reported, nretrieve, pre>>

vars_csv == <<csv_year, rds_offset, rds_size, this_hour_dt, hour_idx, csv_line,
              csv_rows, csv_nulls>>

vars == <<vars_dl, vars_csv, chk, loc>>

\* ----------------------------------------------------------------- files

NoTime == DT(ERA5_START_YR, 1, 1, 0)

Absent == [kind |-> "absent", n |-> 0, vars |-> {}, first |-> NoTime]

\* a netCDF file that opens: n samples of valid_time, the first of them at
\* first, and the data variables vs
Valid(n, vs, first) == [kind |-> "valid", n |-> n, vars |-> vs, first |-> first]

\* a file of at most 500 bytes
Small == [kind |-> "small", n |-> 0, vars |-> {}, first |-> NoTime]

\* a file of more than 500 bytes that netCDF4 cannot open
Corrupt == [kind |-> "corrupt", n |-> 0, vars |-> {}, first |-> NoTime]

\* the sample counts of the files a run may find: for the year of the cutoff,
\* and for the years before it
TerminalCounts == {24, 8784}
EarlierCounts == {8760, 8784}

\* the days of January the cutoff falls on
CutoffDays == {2, 3}
CsvCutoffDays == {3}

\* the files create_csv is tried on: one that starts LateHours after Jan 1
\* 00:00, one that starts EarlyHours before it, one of ShortCount samples
LateHours == 3
EarlyHours == 2
ShortCount == 24

\* the files a run may find at the canonical path of variable v, year y
InitFiles(v, y, dtend) ==
    IF y > dtend.year THEN {Absent}
    ELSE IF y = dtend.year
    THEN {Absent, Small, Corrupt} \cup {Valid(n, {v}, DT(y, 1, 1, 0)) : n \in TerminalCounts}
    ELSE {Absent} \cup {Valid(n, {v}, DT(y, 1, 1, 0)) : n \in EarlierCounts}

\* the files of one variable, year by year; a variable that is not requested
\* has none
InitYearFiles(v, req, dtend) ==
    IF v \in {req[i] : i \in 1 .. Len(req)}
    THEN {[y \in Years |-> IF y \in DlYears THEN g[y] ELSE Absent] :
            g \in {h \in [DlYears -> UNION {InitFiles(v, y, dtend) : y \in DlYears}] :
                     \A y \in DlYears : h[y] \in InitFiles(v, y, dtend)}}
    ELSE {[y \in Years |-> Absent]}

NoFiles == [v \in Vars |-> [y \in Years |-> Absent]]

SeqToSet(s) == {s[i] : i \in 1 .. Len(s)}

\* list.remove(x): drops the first occurrence of x
RECURSIVE ListRemove(_, _)
ListRemove(s, x) ==
    IF s = <<>> THEN <<>>
    ELSE IF Head(s) = x THEN Tail(s)
    ELSE <<Head(s)>> \o ListRemove(Tail(s), x)

\* already_exists without the test of the size
already_exists_any_size(f) == f.kind # "absent"

\* os.path.isfile(p) and os.path.getsize(p) > 500
already_exists(f) == f.kind \in {"corrupt", "valid"}

\* the file download_era5 skips: it exists, opens and holds enough samples
IsComplete(f, y, dtend) ==
    already_exists(f) /\ f.kind = "valid" /\ download_is_complete(f.n, y, dtend)

\* ------------------------------------------------------------------ jobs

\* an app called with the cutoff's year in place of the year examined
Job_cutoff_year(vs, y, p) ==
    [vars |-> vs, year |-> dt_end.year, pass |-> p, state |-> "pending",
     pc |-> "retrieve", k |-> 1]

\* download_era5_year( ..., e5_vars_todownload, year, ... ) as parsl takes it
Job(vs, y, p) ==
    [vars |-> vs, year |-> y, pass |-> p, state |-> "pending", pc |-> "retrieve",
     k |-> 1]

Alive == pc \notin {"crashed"}

Running == {j \in 1 .. Len(jobs) : jobs[j].state = "running"}

\* a pool that starts an app when max_threads apps are running
ThreadFree_one_over == Cardinality(Running) <= num_parallel_downloads

\* ThreadPoolExecutor(max_threads=num_parallel_downloads): a thread is idle
ThreadFree == Cardinality(Running) < num_parallel_downloads

\* the pool takes a pending app when a thread is free
StartApp(j) ==
    /\ Alive
    /\ jobs[j].state = "pending"
    /\ ThreadFree
    /\ jobs' = [jobs EXCEPT ![j].state = "running"]
    /\ UNCHANGED <<e5_vars, era5_names, dt_end, files, tempdl, tempxds, pc, e5_idx,
                   year, e5_vars_todownload, lfut, wait_idx, reported, nretrieve,
                   vars_csv, chk, loc>>

JobStart(j) == StartApp(j) /\ UNCHANGED pre

\* the same step, with the files at the app's canonical paths recorded
JobStartRecorded(j) ==
    /\ StartApp(j)
    /\ pre' = [pre EXCEPT ![<<jobs[j].pass, jobs[j].year>>] =
                 [i \in 1 .. Len(jobs[j].vars) |-> files[jobs[j].vars[i]][jobs[j].year]]]

\* cds.retrieve(cds_dsname, cds_req, temp_filename)
JobRetrieve(j) ==
    /\ Alive
    /\ jobs[j].state = "running" /\ jobs[j].pc = "retrieve"
    /\ nretrieve' = nretrieve + 1
    /\ \E ok \in BOOLEAN :
         IF ok
         THEN /\ tempdl' = [tempdl EXCEPT ![jobs[j].vars[1]][jobs[j].year] =
                              Valid(max_hours(jobs[j].year, dt_end),
                                    SeqToSet(jobs[j].vars), DT(jobs[j].year, 1, 1, 0))]
              /\ jobs' = [jobs EXCEPT ![j].pc = "copy"]
         ELSE /\ jobs' = [jobs EXCEPT ![j].state = "failed"]
              /\ UNCHANGED tempdl
    /\ UNCHANGED <<e5_vars, era5_names, dt_end, files, tempxds, pc, e5_idx, year,
                   e5_vars_todownload, lfut, wait_idx, reported, pre, vars_csv, chk, loc>>

\* shutil.copy( temp_filename, d2_filename )
JobCopy(j) ==
    /\ Alive
    /\ jobs[j].state = "running" /\ jobs[j].pc = "copy"
    /\ LET e5v == jobs[j].vars[jobs[j].k]
           temp == tempdl[jobs[j].vars[1]][jobs[j].year]
       IN \E ok \in BOOLEAN :
            IF ok /\ temp.kind # "absent"
            THEN /\ files' = [files EXCEPT ![e5v][jobs[j].year] = temp]
                 /\ jobs' = [jobs EXCEPT ![j].pc = "strip"]
            ELSE /\ jobs' = [jobs EXCEPT ![j].state = "failed"]
                 /\ UNCHANGED files
    /\ UNCHANGED <<e5_vars, era5_names, dt_end, tempdl, tempxds, pc, e5_idx, year,
                   e5_vars_todownload, lfut, wait_idx, reported, nretrieve, pre, vars_csv, chk, loc>>

\* strip_era5_vars up to xds_new.to_netcdf(tempxds_filename)
JobStripWrite(j) ==
    /\ Alive
    /\ jobs[j].state = "running" /\ jobs[j].pc = "strip"
    /\ LET keep_var == jobs[j].vars[jobs[j].k]
           rem_e5_vars == SeqToSet(jobs[j].vars) \ {keep_var}
           xds == files[keep_var][jobs[j].year]
       IN \E ok \in BOOLEAN :
            IF ok /\ rem_e5_vars \subseteq era5_names /\ xds.kind = "valid"
                  /\ rem_e5_vars \subseteq xds.vars
            THEN /\ tempxds' = [tempxds EXCEPT ![keep_var][jobs[j].year] =
                                  [xds EXCEPT !.vars = xds.vars \ rem_e5_vars]]
                 /\ jobs' = [jobs EXCEPT ![j].pc = "rename"]
            ELSE /\ jobs' = [jobs EXCEPT ![j].state = "failed"]
                 /\ UNCHANGED tempxds
    /\ UNCHANGED <<e5_vars, era5_names, dt_end, files, tempdl, pc, e5_idx, year,
                   e5_vars_todownload, lfut, wait_idx, reported, nretrieve, pre, vars_csv, chk, loc>>

\* os.rename(tempxds_filename,nc_filename), and the loop of download_era5_year
JobStripRename(j) ==
    /\ Alive
    /\ jobs[j].state = "running" /\ jobs[j].pc = "rename"
    /\ LET keep_var == jobs[j].vars[jobs[j].k]
           y == jobs[j].year
       IN IF tempxds[keep_var][y].kind # "absent"
          THEN /\ files' = [files EXCEPT ![keep_var][y] = tempxds[keep_var][y]]
               /\ tempxds' = [tempxds EXCEPT ![keep_var][y] = Absent]
               /\ jobs' = IF jobs[j].k < Len(jobs[j].vars)
                          THEN [jobs EXCEPT ![j].pc = "copy", ![j].k = jobs[j].k + 1]
                          ELSE [jobs EXCEPT ![j].pc = "remove"]
          ELSE /\ jobs' = [jobs EXCEPT ![j].state = "failed"]
               /\ UNCHANGED <<files, tempxds>>
    /\ UNCHANGED <<e5_vars, era5_names, dt_end, tempdl, pc, e5_idx, year,
                   e5_vars_todownload, lfut, wait_idx, reported, nretrieve, pre, vars_csv, chk, loc>>

\* os.remove(temp_filename), and the app returns
JobRemove(j) ==
    /\ Alive
    /\ jobs[j].state = "running" /\ jobs[j].pc = "remove"
    /\ LET v0 == jobs[j].vars[1]
           y == jobs[j].year
       IN IF tempdl[v0][y].kind # "absent"
          THEN /\ tempdl' = [tempdl EXCEPT ![v0][y] = Absent]
               /\ jobs' = [jobs EXCEPT ![j].state = "succeeded", ![j].pc = "done"]
          ELSE /\ jobs' = [jobs EXCEPT ![j].state = "failed"]
               /\ UNCHANGED tempdl
    /\ UNCHANGED <<e5_vars, era5_names, dt_end, files, tempxds, pc, e5_idx, year,
                   e5_vars_todownload, lfut, wait_idx, reported, nretrieve, pre, vars_csv, chk, loc>>

\* ----------------------------------------------------------- main thread

\* main: the arguments are parsed; --no-download skips download_era5
MainStart ==
    /\ pc = "start"
    /\ \E no_download \in BOOLEAN :
         IF no_download
         THEN /\ pc' = "csv"
              /\ UNCHANGED <<e5_idx, year, e5_vars_todownload, lfut>>
         ELSE /\ pc' = "enum"
              /\ e5_vars_todownload' = e5_vars
              /\ e5_idx' = 1
              /\ lfut' = <<>>
              /\ year' = dt_end.year
    /\ UNCHANGED <<e5_vars, era5_names, dt_end, files, tempdl, tempxds, jobs,
                   wait_idx, reported, nretrieve, pre, vars_csv, chk, loc>>

\* the year loop counting upwards
NextYear_ascending ==
    IF year < dt_end.year
    THEN /\ year' = year + 1
         /\ UNCHANGED <<pc, wait_idx>>
    ELSE /\ pc' = "wait"
         /\ wait_idx' = 1
         /\ UNCHANGED year

\* the year loop of download_era5 moves to the next year, most recent first,
\* and after the last year to the wait on the futures
NextYear ==
    IF year > ERA5_START_YR
    THEN /\ year' = year - 1
         /\ UNCHANGED <<pc, wait_idx>>
    ELSE /\ pc' = "wait"
         /\ wait_idx' = 1
         /\ UNCHANGED year

\* download_era5, one year: the file is there and complete, so it is skipped
EnumSkip ==
    /\ pc = "enum"
    /\ LET f == files[e5_vars[e5_idx]][year]
       IN already_exists(f) /\ f.kind = "valid" /\ download_is_complete(f.n, year, dt_end)
    /\ NextYear
    /\ UNCHANGED <<e5_vars, era5_names, dt_end, files, tempdl, tempxds, e5_idx,
                   e5_vars_todownload, jobs, lfut, reported, nretrieve, pre, vars_csv, chk, loc>>

\* download_era5, one year: the file is there and cannot be opened: exit(-1)
EnumExit ==
    /\ pc = "enum"
    /\ LET f == files[e5_vars[e5_idx]][year]
       IN already_exists(f) /\ f.kind # "valid"
    /\ pc' = "exited"
    /\ UNCHANGED <<e5_vars, era5_names, dt_end, files, tempdl, tempxds, e5_idx, year,
                   e5_vars_todownload, jobs, lfut, wait_idx, reported, nretrieve, pre, vars_csv, chk, loc>>

\* download_era5, one year: the file is missing or incomplete, so one app is
\* submitted for the year with all the variables still to download
EnumSubmit ==
    /\ pc = "enum"
    /\ LET f == files[e5_vars[e5_idx]][year]
       IN \/ ~already_exists(f)
          \/ f.kind = "valid" /\ ~download_is_complete(f.n, year, dt_end)
    /\ jobs' = Append(jobs, Job(e5_vars_todownload, year, e5_idx))
    /\ lfut' = Append(lfut, Len(jobs) + 1)
    /\ NextYear
    /\ UNCHANGED <<e5_vars, era5_names, dt_end, files, tempdl, tempxds, e5_idx,
                   e5_vars_todownload, reported, nretrieve, pre, vars_csv, chk, loc>>

\* a wait that takes the end of an app for its result, whatever the end
ResultReturns_any_end(j) == jobs[j].state \in {"succeeded", "failed"}

\* i.result() returns: the app has returned
ResultReturns(j) == jobs[j].state = "succeeded"

\* i.result() raises: the app has raised
ResultRaises(j) == jobs[j].state = "failed"

\* [i.result() for i in lfut]: one future's result, in list order; the
\* exception of a failed app is raised in the main thread
WaitResult ==
    /\ pc = "wait"
    /\ wait_idx <= Len(lfut)
    /\ \/ /\ ResultReturns(lfut[wait_idx])
          /\ wait_idx' = wait_idx + 1
          /\ UNCHANGED pc
       \/ /\ ResultRaises(lfut[wait_idx]) /\ ~ResultReturns(lfut[wait_idx])
          /\ pc' = "aborted"
          /\ UNCHANGED wait_idx
    /\ UNCHANGED <<e5_vars, era5_names, dt_end, files, tempdl, tempxds, e5_idx, year,
                   e5_vars_todownload, jobs, lfut, reported, nretrieve, pre, vars_csv, chk, loc>>

\* the wait ending one future early
AllResultsIn_one_early == wait_idx >= Len(lfut)

\* the list comprehension over lfut has run to its end
AllResultsIn == wait_idx > Len(lfut)

\* every result was returned: the variable is removed from the list, reported
\* done, and the next pass begins, or download_era5 returns to main
PassDone ==
    /\ pc = "wait"
    /\ AllResultsIn
    /\ e5_vars_todownload' = ListRemove(e5_vars_todownload, e5_vars[e5_idx])
    /\ reported' = reported \cup {e5_vars[e5_idx]}
    /\ IF e5_idx < Len(e5_vars)
       THEN /\ e5_idx' = e5_idx + 1
            /\ lfut' = <<>>
            /\ year' = dt_end.year
            /\ pc' = "enum"
       ELSE /\ pc' = "csv"
            /\ UNCHANGED <<e5_idx, lfut, year>>
    /\ UNCHANGED <<e5_vars, era5_names, dt_end, files, tempdl, tempxds, jobs,
                   wait_idx, nretrieve, pre, vars_csv, chk, loc>>

\* the process is killed: every thread stops where it is
Crash ==
    /\ pc \in {"enum", "wait"}
    /\ pc' = "crashed"
    /\ UNCHANGED <<e5_vars, era5_names, dt_end, files, tempdl, tempxds, e5_idx, year,
                   e5_vars_todownload, jobs, lfut, wait_idx, reported, nretrieve, pre, vars_csv, chk, loc>>

\* -------------------------------------------------------------- create_csv

NoLine == [kind |-> "none", cols |-> <<>>, dt |-> NoTime, vals |-> <<>>]

\* print(header_str, file=csv_file)
HeaderLine(vs) ==
    [kind |-> "header", cols |-> <<"datetime">> \o vs, dt |-> NoTime, vals |-> <<>>]

\* a value of a record: the file's sample at index idx, or the null token
Sample(i) == [null |-> FALSE, idx |-> i]
Null == [null |-> TRUE, idx |-> 0]

\* val_str without the test rds_hour_idx >= 0: a negative index counts from
\* the end of the array
val_str_wraps(hidx, off, size) ==
    LET rds_hour_idx == hidx - off
    IN IF rds_hour_idx < size /\ rds_hour_idx >= 0 - size
       THEN Sample(IF rds_hour_idx < 0 THEN size + rds_hour_idx ELSE rds_hour_idx)
       ELSE Null

\* val_str for the variable whose file has offset off and size samples
val_str(hidx, off, size) ==
    LET rds_hour_idx == hidx - off
    IN IF rds_hour_idx >= 0 /\ rds_hour_idx < size THEN Sample(rds_hour_idx) ELSE Null

\* csvline_str of one pass of the while loop
RecordLine(dt, hidx, vs, offs, sizes) ==
    [kind |-> "record", cols |-> <<>>, dt |-> dt,
     vals |-> [i \in 1 .. Len(vs) |-> val_str(hidx, offs[vs[i]], sizes[vs[i]])]]

\* the point of the run is not followed: angles are in hundredths of a degree
NoLoc ==
    [pc |-> "none", latn |-> 0, longe |-> 0, grid_lat_n |-> 0, grid_long_e |-> 0,
     area_coord |-> <<>>]

\* no stored file is being followed from run to run
NoCheck ==
    [n |-> 0, year |-> ERA5_START_YR, again |-> FALSE, prev_year |-> ERA5_START_YR,
     result |-> "none"]

\* the state of create_csv before it is called
CsvIdle ==
    /\ csv_year = ERA5_START_YR
    /\ rds_offset = [v \in Vars |-> 0]
    /\ rds_size = [v \in Vars |-> 0]
    /\ this_hour_dt = NoTime
    /\ hour_idx = 0
    /\ csv_line = NoLine
    /\ csv_rows = 0
    /\ csv_nulls = [v \in Vars |-> 0]

vars_dlonly == <<tempdl, tempxds, e5_idx, year, e5_vars_todownload, jobs, lfut,
                 wait_idx, reported, nretrieve, pre>>

\* create_csv up to the year loop: the header is printed, then the short
\* names are looked up; a long name with no entry raises KeyError
CsvBegin ==
    /\ pc = "csv"
    /\ csv_line' = HeaderLine(e5_vars)
    /\ IF SeqToSet(e5_vars) \subseteq era5_names
       THEN /\ pc' = "csv_open"
            /\ csv_year' = ERA5_START_YR
       ELSE /\ pc' = "aborted"
            /\ UNCHANGED csv_year
    /\ UNCHANGED <<e5_vars, era5_names, dt_end, files, vars_dlonly, rds_offset,
                   rds_size, this_hour_dt, hour_idx, csv_rows, csv_nulls, chk, loc>>

\* open_nc_ro
Opens(f) == f.kind = "valid"

\* hour_offset with the subtraction reversed
hour_offset_reversed(first_dt, y) == HoursBetween(DT(y, 1, 1, 0), first_dt)

\* hour_offset: from the file's first valid_time to Jan 1 00:00 of the year
hour_offset(first_dt, y) == HoursBetween(first_dt, DT(y, 1, 1, 0))

\* one year of create_csv up to the while loop: every variable's file is
\* opened and its hour_offset computed; a file that does not open: exit(-1)
CsvOpenYear ==
    /\ pc = "csv_open"
    /\ IF \A v \in SeqToSet(e5_vars) : Opens(files[v][csv_year])
       THEN /\ pc' = "csv_rows"
            /\ rds_offset' = [v \in Vars |-> hour_offset(files[v][csv_year].first, csv_year)]
            /\ rds_size' = [v \in Vars |-> files[v][csv_year].n]
            /\ this_hour_dt' = DT(csv_year, 1, 1, 0)
            /\ hour_idx' = 0
            /\ csv_rows' = 0
            /\ csv_nulls' = [v \in Vars |-> 0]
       ELSE /\ pc' = "exited"
            /\ UNCHANGED <<rds_offset, rds_size, this_hour_dt, hour_idx, csv_rows,
                           csv_nulls>>
    /\ UNCHANGED <<e5_vars, era5_names, dt_end, files, vars_dlonly, csv_year,
                   csv_line, chk, loc>>

\* end_hour_dt without hour=23
end_hour_dt_midnight == DT(csv_year, 12, 31, 0)

\* the last hour of the year
end_hour_dt == DT(csv_year, 12, 31, 23)

\* main passes dt_end.year to create_csv as end_year
end_year == dt_end.year

\* one pass of the while loop: one record is printed
CsvRow ==
    /\ pc = "csv_rows"
    /\ DtLeq(this_hour_dt, end_hour_dt)
    /\ csv_line' = RecordLine(this_hour_dt, hour_idx, e5_vars, rds_offset, rds_size)
    /\ this_hour_dt' = AddHour(this_hour_dt)
    /\ hour_idx' = hour_idx + 1
    /\ csv_rows' = csv_rows + 1
    /\ csv_nulls' = [v \in Vars |->
                       IF \E i \in 1 .. Len(e5_vars) :
                             e5_vars[i] = v /\ csv_line'.vals[i].null
                       THEN csv_nulls[v] + 1 ELSE csv_nulls[v]]
    /\ UNCHANGED <<e5_vars, era5_names, dt_end, files, vars_dlonly, pc, csv_year,
                   rds_offset, rds_size, chk, loc>>

\* the while loop ends: the year's files are closed, and the next year
\* begins or the CSV file is closed
CsvEndYear ==
    /\ pc = "csv_rows"
    /\ ~DtLeq(this_hour_dt, end_hour_dt)
    /\ IF csv_year < end_year
       THEN /\ csv_year' = csv_year + 1
            /\ pc' = "csv_open"
       ELSE /\ pc' = "done"
            /\ UNCHANGED csv_year
    /\ UNCHANGED <<e5_vars, era5_names, dt_end, files, vars_dlonly, rds_offset,
                   rds_size, this_hour_dt, hour_idx, csv_line, csv_rows, csv_nulls,
                   chk, loc>>

\* the hours of year y on the calendar
YearHours(y) == HoursBetween(DT(y + 1, 1, 1, 0), DT(y, 1, 1, 0))

\* the files create_csv may find for a variable: the same kind of file for
\* every year, with its offset and its sample count
\* (of VarA, of VarB), tried in pairs
CsvScenarios ==
    {<<"full", "late">>, <<"late", "full">>, <<"early", "short">>, <<"short", "early">>,
     <<"full", "full">>, <<"missing", "full">>, <<"full", "missing">>}

ProfileFile(prof, v, y) ==
    IF prof = "full" THEN Valid(YearHours(y), {v}, DT(y, 1, 1, 0))
    ELSE IF prof = "late" THEN Valid(YearHours(y) - LateHours, {v}, DT(y, 1, 1, LateHours))
    ELSE IF prof = "early"
    THEN Valid(YearHours(y) + 2 * EarlyHours, {v}, DT(y - 1, 12, 31, 24 - EarlyHours))
    ELSE IF prof = "short" THEN Valid(ShortCount, {v}, DT(y, 1, 1, 0))
    ELSE Absent

\* the state when main calls create_csv in a run with --no-download
InitCsv ==
    /\ e5_vars \in Requests
    /\ era5_names \in NameTables
    /\ dt_end \in {DT(y, 1, d, 0) : y \in CsvYears, d \in CsvCutoffDays}
    /\ \E sc \in CsvScenarios :
          files = [v \in Vars |-> [y \in Years |->
                     IF v \in SeqToSet(e5_vars) /\ y <= dt_end.year
                     THEN ProfileFile(IF v = VarA THEN sc[1] ELSE sc[2], v, y)
                     ELSE Absent]]
    /\ tempdl = NoFiles
    /\ tempxds = NoFiles
    /\ pc = "csv"
    /\ e5_idx = 1
    /\ year = dt_end.year
    /\ e5_vars_todownload = e5_vars
    /\ jobs = <<>>
    /\ lfut = <<>>
    /\ wait_idx = 1
    /\ reported = {}
    /\ nretrieve = 0
    /\ pre = [p \in (1 .. MaxPasses) \X Years |-> <<>>]
    /\ CsvIdle
    /\ chk = NoCheck
    /\ loc = NoLoc

NextCsv ==
    \/ CsvBegin
    \/ CsvOpenYear
    \/ CsvRow
    \/ CsvEndYear

SpecCsv == InitCsv /\ [][NextCsv]_vars

\* ------------------------------------------------- download_is_complete

\* the sample counts and the years of the stored files, and the cutoffs
CheckCounts == {0, 24, 48, 1416, 8759, 8760, 8761, 8783, 8784, 8785}
CheckYears == {1940, 1941, 2000, 2100}
CheckCutoffs ==
    {DT(y + a, md[1], md[2], 0) :
        y \in CheckYears, a \in {0, 1}, md \in {<<1, 1>>, <<1, 2>>, <<3, 1>>, <<12, 31>>}}

\* download_era5 examines the files of the years up to the cutoff's
InitCheck ==
    /\ dt_end \in CheckCutoffs
    /\ \E n \in CheckCounts, y \in CheckYears :
          /\ y <= dt_end.year
          /\ chk = [n |-> n, year |-> y, again |-> FALSE, prev_year |-> dt_end.year,
                  result |-> "none"]
    /\ e5_vars = <<VarA>>
    /\ era5_names = Vars
    /\ files = NoFiles
    /\ tempdl = NoFiles
    /\ tempxds = NoFiles
    /\ pc = "start"
    /\ e5_idx = 1
    /\ year = dt_end.year
    /\ e5_vars_todownload = e5_vars
    /\ jobs = <<>>
    /\ lfut = <<>>
    /\ wait_idx = 1
    /\ reported = {}
    /\ nretrieve = 0
    /\ pre = [p \in (1 .. MaxPasses) \X Years |-> <<>>]
    /\ CsvIdle
    /\ loc = NoLoc

Answer(b) == IF b THEN "true" ELSE "false"

\* a run gates on the stored file: download_is_complete at the run's cutoff
CheckFile ==
    /\ chk.result = "none"
    /\ chk' = [chk EXCEPT !.result = Answer(download_is_complete(chk.n, chk.year, dt_end))]
    /\ UNCHANGED <<vars_dl, vars_csv, loc>>

\* a later run gates on the same file: the cutoff has moved on
CheckAgain ==
    /\ chk.result # "none"
    /\ \E c \in CheckCutoffs :
          /\ HoursOf(c) > HoursOf(dt_end)
          /\ dt_end' = c
          /\ chk' = [chk EXCEPT !.again = TRUE, !.prev_year = dt_end.year,
                                !.result = Answer(download_is_complete(chk.n, chk.year, c))]
    /\ UNCHANGED <<e5_vars, era5_names, files, tempdl, tempxds, pc, e5_idx, year,
                   e5_vars_todownload, jobs, lfut, wait_idx, reported, nretrieve, pre,
                   vars_csv, loc>>

NextCheck ==
    \/ CheckFile
    \/ CheckAgain

SpecCheck == InitCheck /\ [][NextCheck]_vars


\* ----------------------------------------------------- the download run

InitDl ==
    /\ e5_vars \in Requests
    /\ era5_names \in NameTables
    /\ dt_end \in {DT(y, 1, d, 0) : y \in DlYears, d \in CutoffDays}
    /\ \E fa \in InitYearFiles(VarA, e5_vars, dt_end),
          fb \in InitYearFiles(VarB, e5_vars, dt_end) :
          files = [v \in Vars |-> IF v = VarA THEN fa ELSE fb]
    /\ tempdl = NoFiles
    /\ tempxds = NoFiles
    /\ pc = "start"
    /\ e5_idx = 1
    /\ year = dt_end.year
    /\ e5_vars_todownload = e5_vars
    /\ jobs = <<>>
    /\ lfut = <<>>
    /\ wait_idx = 1
    /\ reported = {}
    /\ nretrieve = 0
    /\ pre = [p \in (1 .. MaxPasses) \X Years |-> <<>>]
    /\ CsvIdle
    /\ chk = NoCheck
    /\ loc = NoLoc

NextDl ==
    \/ MainStart
    \/ EnumSkip
    \/ EnumExit
    \/ EnumSubmit
    \/ WaitResult
    \/ PassDone
    \/ \E j \in 1 .. Len(jobs) : JobStart(j)
    \/ \E j \in 1 .. Len(jobs) : JobRetrieve(j)
    \/ \E j \in 1 .. Len(jobs) : JobCopy(j)
    \/ \E j \in 1 .. Len(jobs) : JobStripWrite(j)
    \/ \E j \in 1 .. Len(jobs) : JobStripRename(j)
    \/ \E j \in 1 .. Len(jobs) : JobRemove(j)

Spec == InitDl /\ [][NextDl]_vars

\* the same run with the history recorded, which may be killed at any point
NextCrash ==
    \/ MainStart
    \/ EnumSkip
    \/ EnumExit
    \/ EnumSubmit
    \/ WaitResult
    \/ PassDone
    \/ \E j \in 1 .. Len(jobs) : JobStartRecorded(j)
    \/ \E j \in 1 .. Len(jobs) : JobRetrieve(j)
    \/ \E j \in 1 .. Len(jobs) : JobCopy(j)
    \/ \E j \in 1 .. Len(jobs) : JobStripWrite(j)
    \/ \E j \in 1 .. Len(jobs) : JobStripRename(j)
    \/ \E j \in 1 .. Len(jobs) : JobRemove(j)
    \/ Crash

SpecCrash == InitDl /\ [][NextCrash]_vars

\* the run with every thread scheduled and every remote request returning or
\* raising: a step is taken as long as one can be
SpecFair == InitDl /\ [][NextDl]_vars /\ WF_vars(NextDl)

\* no file of the one requested variable in any of PoolYears
NoPoolFiles == [v \in {VarA} |-> [y \in PoolYears |-> Absent]]

\* the directories the run is tried on: with no file, so that every year of
\* the pass needs an app; with an unreadable file for the cutoff's year; and
\* with a full file for every year but the first
PoolProfiles == {"empty", "unreadable", "first year missing"}

PoolFile(prof, y, dtend) ==
    IF prof = "unreadable" /\ y = dtend.year THEN Corrupt
    ELSE IF prof = "first year missing" /\ y > ERA5_START_YR
    THEN Valid(24 * 366, {VarA}, DT(y, 1, 1, 0))
    ELSE Absent

\* a run for one variable with the cutoff in the last of PoolYears
InitPool ==
    /\ e5_vars = <<VarA>>
    /\ era5_names = Vars
    /\ dt_end = DT(ERA5_START_YR + num_parallel_downloads, 1, 2, 0)
    /\ \E prof \in PoolProfiles :
          files = [v \in {VarA} |-> [y \in PoolYears |-> PoolFile(prof, y, dt_end)]]
    /\ tempdl = NoPoolFiles
    /\ tempxds = NoPoolFiles
    /\ pc = "start"
    /\ e5_idx = 1
    /\ year = dt_end.year
    /\ e5_vars_todownload = e5_vars
    /\ jobs = <<>>
    /\ lfut = <<>>
    /\ wait_idx = 1
    /\ reported = {}
    /\ nretrieve = 0
    /\ pre = [p \in {1} \X PoolYears |-> <<>>]
    /\ CsvIdle
    /\ chk = NoCheck
    /\ loc = NoLoc

SpecPool == InitPool /\ [][NextDl]_vars

\* what an app that was killed, or that failed, between shutil.copy and the
\* end of strip_era5_vars has left at a canonical path: the combined download
\* of the requested variables
Leftover(req, y, dtend) == Valid(max_hours(y, dtend), SeqToSet(req), DT(y, 1, 1, 0))

\* the files of one variable a run may find after such a run
RetryYearFiles(v, req, dtend) ==
    {[y \in Years |-> IF y \in DlYears THEN g[y] ELSE Absent] :
       g \in {h \in [DlYears -> UNION {InitFiles(v, y, dtend) \cup {Leftover(req, y, dtend)} :
                                          y \in DlYears}] :
                \A y \in DlYears :
                   \/ h[y] \in InitFiles(v, y, dtend)
                   \/ y <= dtend.year /\ h[y] = Leftover(req, y, dtend)}}

\* a run for two variables that follows a run that was killed or has failed
InitRetry ==
    /\ e5_vars = <<VarA, VarB>>
    /\ era5_names = Vars
    /\ dt_end \in {DT(y, 1, d, 0) : y \in DlYears, d \in CutoffDays}
    /\ \E fa \in RetryYearFiles(VarA, e5_vars, dt_end),
          fb \in RetryYearFiles(VarB, e5_vars, dt_end) :
          files = [v \in Vars |-> IF v = VarA THEN fa ELSE fb]
    /\ tempdl = NoFiles
    /\ tempxds = NoFiles
    /\ pc = "start"
    /\ e5_idx = 1
    /\ year = dt_end.year
    /\ e5_vars_todownload = e5_vars
    /\ jobs = <<>>
    /\ lfut = <<>>
    /\ wait_idx = 1
    /\ reported = {}
    /\ nretrieve = 0
    /\ pre = [p \in (1 .. MaxPasses) \X Years |-> <<>>]
    /\ CsvIdle
    /\ chk = NoCheck
    /\ loc = NoLoc

SpecRetry == InitRetry /\ [][NextDl]_vars

\* ------------------------------------------------------------- the grid
\* Angles are integers, in hundredths of a degree: a quarter degree is 25.

\* math.ceil(x * 4) / 4
CeilQuarter(x) == 25 * (0 - ((0 - 4 * x) \div 100))

\* math.floor(x * 4) / 4
FloorQuarter(x) == 25 * ((4 * x) \div 100)

\* form_cds_request: area_coord, in the order north, west, south, east
area_coord(lat_n, long_e) == <<lat_n, long_e - 25, lat_n - 25, long_e>>

\* the points tried: around the default point of main, around the equator
\* and the prime meridian, and the ends of the ranges
Latitudes == (5925 .. 5950) \cup ((0 - 25) .. 25) \cup {0 - 9000, 9000}
Longitudes == ((0 - 15200) .. (0 - 15175)) \cup ((0 - 25) .. 25) \cup {0 - 18000, 18000}

\* main has parsed latn and longe
InitGrid ==
    /\ \E la \in Latitudes, lo \in Longitudes :
          loc = [pc |-> "args", latn |-> la, longe |-> lo, grid_lat_n |-> 0,
                 grid_long_e |-> 0, area_coord |-> <<>>]
    /\ e5_vars = <<VarA>>
    /\ era5_names = Vars
    /\ dt_end = DT(ERA5_START_YR, 1, 2, 0)
    /\ files = NoFiles
    /\ tempdl = NoFiles
    /\ tempxds = NoFiles
    /\ pc = "start"
    /\ e5_idx = 1
    /\ year = dt_end.year
    /\ e5_vars_todownload = e5_vars
    /\ jobs = <<>>
    /\ lfut = <<>>
    /\ wait_idx = 1
    /\ reported = {}
    /\ nretrieve = 0
    /\ pre = [p \in (1 .. MaxPasses) \X Years |-> <<>>]
    /\ CsvIdle
    /\ chk = NoCheck

\* main: the point is moved to a point of the quarter-degree grid
SnapToGrid ==
    /\ loc.pc = "args"
    /\ loc' = [loc EXCEPT !.pc = "grid",
                          !.grid_lat_n = CeilQuarter(loc.latn),
                          !.grid_long_e = FloorQuarter(loc.longe)]
    /\ UNCHANGED <<vars_dl, vars_csv, chk>>

\* download_era5_year calls form_cds_request with the grid point
FormRequest ==
    /\ loc.pc = "grid"
    /\ loc' = [loc EXCEPT !.pc = "request",
                          !.area_coord = area_coord(loc.grid_lat_n, loc.grid_long_e)]
    /\ UNCHANGED <<vars_dl, vars_csv, chk>>

NextGrid ==
    \/ SnapToGrid
    \/ FormRequest

SpecGrid == InitGrid /\ [][NextGrid]_vars

\* ================================================================ claims

\* the expected sample count of the completeness rule: the whole hours from
\* Jan 1 00:00 to the cutoff for the cutoff's year, a full calendar year
\* (24 x 366 in a Gregorian leap year, 24 x 365 otherwise) for any other
ClaimLeap(y) == y % 4 = 0 /\ (y % 100 # 0 \/ y % 400 = 0)
ClaimExpected(y, cutoff) ==
    IF y = cutoff.year
    THEN HoursOf(cutoff) - HoursOf(DT(y, 1, 1, 0))
    ELSE IF ClaimLeap(y) THEN 24 * 366 ELSE 24 * 365

\* a YearlyFile that exists and is complete for the cutoff
ClaimComplete(f, y, cutoff) == f.kind = "valid" /\ f.n >= ClaimExpected(y, cutoff)

RunYears == ERA5_START_YR .. dt_end.year

\* ---------------------------------------------------------------- C1

\* an app that has its combined download and has not finished publishing
Publishing(j) ==
    jobs[j].state = "running" /\ jobs[j].pc \in {"copy", "strip", "rename", "remove"}

\* C1: when the process is killed while an app is between the write of its
\* combined download and the end of its publication, every canonical path of
\* the app holds what it held before the app started, and a path that did not
\* hold a complete file then is not scored complete by a retried run.
C1_AtomicPublication ==
    pc = "crashed" =>
      \A j \in 1 .. Len(jobs) :
         Publishing(j) =>
           \A i \in 1 .. Len(jobs[j].vars) :
              LET f == files[jobs[j].vars[i]][jobs[j].year]
                  before == pre[<<jobs[j].pass, jobs[j].year>>][i]
              IN /\ f = before
                 /\ ~ClaimComplete(before, jobs[j].year, dt_end)
                      => ~IsComplete(f, jobs[j].year, dt_end)

\* ---------------------------------------------------------------- C2

AllComplete ==
    \A v \in SeqToSet(e5_vars), y \in RunYears : ClaimComplete(files[v][y], y, dt_end)

\* C2: as long as every requested file is complete for the cutoff and nothing
\* has been submitted, a step of the run submits no app, issues no remote
\* request and changes no file; from the start of a run over complete files
\* this gives zero requests and untouched files for the whole run.
C2_Idempotent ==
    [][(AllComplete /\ jobs = <<>> /\ nretrieve = 0)
         => (jobs' = <<>> /\ nretrieve' = 0 /\ files' = files /\ tempdl' = tempdl
             /\ tempxds' = tempxds /\ pc' \notin {"exited", "aborted"})]_vars

\* a run over complete files of two variables has gone through both passes
C2_Witness ==
    /\ AllComplete
    /\ Len(e5_vars) = 2
    /\ pc = "csv"
    /\ reported = SeqToSet(e5_vars)
    /\ jobs = <<>>
    /\ nretrieve = 0

\* ---------------------------------------------------------------- C3

\* C3, for every year: for a fixed file and year, once download_is_complete has
\* answered true for a cutoff, it answers true for every later cutoff.
C3_MonotoneInCutoff ==
    [][chk.result = "true" => chk'.result = "true"]_vars

\* C3, for a closed year: for a fixed file of a year before the cutoff's year, once
\* download_is_complete has answered true, it answers true for every later
\* cutoff.
C3_MonotoneClosedYear ==
    [][(chk.result = "true" /\ chk.year < dt_end.year) => chk'.result = "true"]_vars

\* a file of a year before the cutoff's was complete, and is complete again
\* at a later cutoff
C3_Witness ==
    /\ chk.again
    /\ chk.year < chk.prev_year
    /\ chk.result = "true"
    /\ chk.n < 24 * 366

\* ---------------------------------------------------------------- C8

\* the apps a step submits
Submitted(before, after) == {after[j] : j \in (Len(before) + 1) .. Len(after)}

\* C8, for every variable of the list: no app is submitted whose variable list holds a variable
\* whose file for the app's year is complete when the app is submitted.
C8_NoCompleteRefetch ==
    [][\A job \in Submitted(jobs, jobs') :
          \A i \in 1 .. Len(job.vars) :
             ~ClaimComplete(files[job.vars[i]][job.year], job.year, dt_end)]_vars

\* C8, for the variable of the pass: no app is submitted in the pass of a variable for a year
\* for which that variable's own file, the first of the app's list, is
\* complete when the app is submitted.
C8_NoCompleteRefetchOfPassVariable ==
    [][\A job \in Submitted(jobs, jobs') :
          /\ job.vars[1] = e5_vars[e5_idx]
          /\ ~ClaimComplete(files[job.vars[1]][job.year], job.year, dt_end)]_vars

\* in the first pass of a run for two variables, one year was skipped over a
\* complete file and an app was submitted for the other year
C8_Witness ==
    /\ Len(e5_vars) = 2
    /\ pc = "wait"
    /\ e5_idx = 1
    /\ Len(jobs) = 1
    /\ jobs[1].state = "pending"
    /\ \E y \in RunYears :
          /\ y # jobs[1].year
          /\ ClaimComplete(files[e5_vars[1]][y], y, dt_end)

\* ---------------------------------------------------------------- C9

\* C9: an app that has failed has left every canonical file of its variables
\* as it was when the app started.
C9_FailedJobChangesNothing ==
    \A j \in 1 .. Len(jobs) :
       jobs[j].state = "failed" =>
         \A i \in 1 .. Len(jobs[j].vars) :
            files[jobs[j].vars[i]][jobs[j].year] = pre[<<jobs[j].pass, jobs[j].year>>][i]

\* --------------------------------------------------------------- C10

Unfinished(j) == jobs[j].state \in {"pending", "running"}

\* C10: while an app of a pass is pending or running, the pass's variable has
\* not been reported done, the orchestrator is still in that pass, and
\* create_csv has not been called.
C10_PassBarrier ==
    \A j \in 1 .. Len(jobs) :
       Unfinished(j) =>
         /\ e5_vars[jobs[j].pass] \notin reported
         /\ e5_idx = jobs[j].pass
         /\ pc \notin {"csv", "csv_open", "csv_rows", "done"}

\* the orchestrator holds the result of the first app of a pass of two and
\* waits for the second, which is still running
C10_Witness ==
    /\ pc = "wait"
    /\ Len(lfut) = 2
    /\ wait_idx = 2
    /\ jobs[lfut[1]].state = "succeeded"
    /\ jobs[lfut[2]].state = "running"

\* ------------------------------------------------------------ C4 .. C7

\* create_csv has closed the files of a year: of the terminal year when it
\* is done, of the year before csv_year when it is about to open csv_year
YearWritten == pc = "done" \/ (pc = "csv_open" /\ csv_year > ERA5_START_YR)
WrittenYear == IF pc = "done" THEN csv_year ELSE csv_year - 1

\* C4: the records printed for the terminal year are as many as the whole
\* hours from Jan 1 00:00 of that year to the embargo cutoff.
C4_TerminalYearStopsAtCutoff ==
    (YearWritten /\ WrittenYear = dt_end.year)
      => csv_rows = HoursOf(dt_end) - HoursOf(DT(dt_end.year, 1, 1, 0))

\* C5: the records printed for a year before the terminal year are 24 x 366
\* in a Gregorian leap year and 24 x 365 otherwise, whatever the files hold.
C5_FullYearRows ==
    (YearWritten /\ WrittenYear < dt_end.year)
      => csv_rows = (IF ClaimLeap(WrittenYear) THEN 24 * 366 ELSE 24 * 365)

\* a year that is not a leap year and not the terminal year has been written
C5_Witness ==
    /\ YearWritten
    /\ WrittenYear < dt_end.year
    /\ ~ClaimLeap(WrittenYear)
    /\ csv_rows = 8760
    /\ \E v \in SeqToSet(e5_vars) : files[v][WrittenYear].n # 8760

\* the grid hour of a record: the hours from Jan 1 00:00 of its year
GridHour(line) == HoursOf(line.dt) - HoursOf(DT(line.dt.year, 1, 1, 0))

\* the offset of a file: the hours from Jan 1 00:00 of year y to its first sample
ClaimOffset(f, y) == HoursOf(f.first) - HoursOf(DT(y, 1, 1, 0))

\* C6: in every record, the value of a variable is the sample at index
\* h - o of the variable's file for the record's year when 0 <= h - o < c,
\* and the null token otherwise (h the grid hour, o the file's offset, c its
\* sample count).
C6_NullFill ==
    csv_line.kind = "record" =>
      \A i \in 1 .. Len(e5_vars) :
         LET f == files[e5_vars[i]][csv_line.dt.year]
             h == GridHour(csv_line)
             o == ClaimOffset(f, csv_line.dt.year)
         IN csv_line.vals[i] = (IF 0 <= h - o /\ h - o < f.n THEN Sample(h - o) ELSE Null)

\* a record past the end of a short file whose other variable starts before
\* Jan 1 00:00: a real value read at a shifted index beside a null
C6_Witness ==
    /\ csv_line.kind = "record"
    /\ Len(e5_vars) = 2
    /\ ClaimOffset(files[e5_vars[1]][csv_line.dt.year], csv_line.dt.year) < 0
    /\ ~csv_line.vals[1].null
    /\ csv_line.vals[1].idx > GridHour(csv_line)
    /\ csv_line.vals[2].null
    /\ GridHour(csv_line) >= files[e5_vars[2]][csv_line.dt.year].n

\* C7: for a variable whose file starts k > 0 hours after Jan 1 00:00, the
\* records 0 .. k-1 are null and record k carries the file's sample 0; a
\* variable whose file starts at Jan 1 00:00 has its sample h in record h; and
\* a file of k fewer samples than the year has hours gives k nulls in all.
C7_LateStart ==
    /\ csv_line.kind = "record" =>
         \A i \in 1 .. Len(e5_vars) :
            LET f == files[e5_vars[i]][csv_line.dt.year]
                h == GridHour(csv_line)
                k == ClaimOffset(f, csv_line.dt.year)
            IN /\ (k > 0 /\ h < k) => csv_line.vals[i] = Null
               /\ (k > 0 /\ h = k /\ f.n > 0) => csv_line.vals[i] = Sample(0)
               /\ (k = 0 /\ h < f.n) => csv_line.vals[i] = Sample(h)
    /\ YearWritten =>
         \A v \in SeqToSet(e5_vars) :
            LET f == files[v][WrittenYear]
                k == ClaimOffset(f, WrittenYear)
            IN (k > 0 /\ f.n = YearHours(WrittenYear) - k) => csv_nulls[v] = k

\* the year 1941 of 8760 hours is written: 3 nulls for the variable whose
\* file holds 8757 samples from 03:00, none for the one that holds 8760
C7_Witness ==
    /\ YearWritten
    /\ WrittenYear = 1941
    /\ e5_vars = <<VarA, VarB>>
    /\ files[VarA][1941] = Valid(8760, {VarA}, DT(1941, 1, 1, 0))
    /\ files[VarB][1941] = Valid(8757, {VarB}, DT(1941, 1, 1, 3))
    /\ csv_rows = 8760
    /\ csv_nulls[VarA] = 0
    /\ csv_nulls[VarB] = 3

\* --------------------------------------------------------------- C11

\* C11: at most max_parallel (5) apps are running at any time, however many
\* have been submitted, and every other submitted app that has not ended is
\* pending.
C11_BoundedParallelism ==
    /\ Cardinality({j \in 1 .. Len(jobs) : jobs[j].state = "running"}) <= 5
    /\ \A j \in 1 .. Len(jobs) :
          jobs[j].state \in {"pending", "running", "succeeded", "failed"}

\* six apps are submitted: five are running and the sixth stays pending
C11_Witness ==
    /\ Len(jobs) = 6
    /\ Cardinality({j \in 1 .. Len(jobs) : jobs[j].state = "running"}) = 5
    /\ \E j \in 1 .. Len(jobs) : jobs[j].state = "pending"

\* --------------------------------------------------------------- C12

SomeFailed == \E j \in 1 .. Len(jobs) : jobs[j].state = "failed"

\* the run has ended in an error: the exception of a failed app has been
\* raised in the main thread, or the process has called exit(-1)
ErrorEnd == pc \in {"aborted", "exited"}

\* after the failure of an app: no second app for its variable list and
\* year, its pass not reported done, no later pass, no CSV assembly
FailureIsFatal ==
    \A j \in 1 .. Len(jobs) :
       jobs[j].state = "failed" =>
         /\ \A i \in 1 .. Len(jobs) :
               (i # j /\ jobs[i].year = jobs[j].year) => jobs[i].vars # jobs[j].vars
         /\ e5_vars[jobs[j].pass] \notin reported
         /\ e5_idx = jobs[j].pass
         /\ pc \notin {"csv", "csv_open", "csv_rows", "done"}

\* C12: once an app has failed, no app is submitted again for its variable
\* list and year, its pass is never reported done, no later pass starts and
\* create_csv is never called; and the run ends in an error.
C12_FetchFailureIsFatal == [](FailureIsFatal) /\ (SomeFailed ~> ErrorEnd)

\* the second app of a pass has failed while the first was still running;
\* the first has succeeded since, and the exception has ended the run
C12_Witness ==
    /\ Len(lfut) = 2
    /\ jobs[lfut[1]].state = "succeeded"
    /\ jobs[lfut[2]].state = "failed"
    /\ jobs[lfut[2]].pass = 1
    /\ Len(e5_vars) = 2
    /\ pc = "aborted"

\* --------------------------------------------------------------- C13

\* a requested long name has no entry in the name table
MissingName == \E i \in 1 .. Len(e5_vars) : e5_vars[i] \notin era5_names

\* C13: in a run that requests a long name the name table has no entry for,
\* no remote request is ever issued: the lookup fails before any cds.retrieve.
C13_LookupBeforeFetch == MissingName => nretrieve = 0

\* --------------------------------------------------------------- C14

\* a YearlyFile that is not complete: absent, of at most 500 bytes, or of
\* fewer samples than expected
ClaimNotComplete(f, y, cutoff) ==
    \/ f.kind \in {"absent", "small"}
    \/ f.kind = "valid" /\ f.n < ClaimExpected(y, cutoff)

\* the requested variables whose own pass has not finished, in request order
Outstanding == SubSeq(e5_vars, e5_idx, Len(e5_vars))

\* the orchestrator has dealt with the year it was examining
YearExamined == pc = "enum" /\ (year' # year \/ pc' # pc)

\* C14: when the pass of variable v deals with year y, it submits an app if
\* and only if v's file for y is not complete, and then exactly one, for
\* year y, whose variable list is the requested variables whose pass has not
\* finished, in request order, v first; no pass has two apps for one year.
C14_Gating ==
    [][YearExamined =>
         /\ Len(jobs') \in {Len(jobs), Len(jobs) + 1}
         /\ Len(jobs') = Len(jobs) + 1
               <=> ClaimNotComplete(files[e5_vars[e5_idx]][year], year, dt_end)
         /\ Len(jobs') = Len(jobs) + 1 =>
               /\ jobs'[Len(jobs')].year = year
               /\ jobs'[Len(jobs')].pass = e5_idx
               /\ jobs'[Len(jobs')].vars = Outstanding
               /\ jobs'[Len(jobs')].vars[1] = e5_vars[e5_idx]
         /\ \A i, j \in 1 .. Len(jobs') :
               (i # j /\ jobs'[i].pass = jobs'[j].pass) => jobs'[i].year # jobs'[j].year]_vars

\* a run for two variables over two years: the first pass skipped one year
\* and submitted one app for both variables, the second pass one app for
\* the second variable alone
C14_Witness ==
    /\ Len(e5_vars) = 2
    /\ dt_end.year = ERA5_START_YR + 1
    /\ e5_idx = 2
    /\ pc = "wait"
    /\ Len(jobs) = 2
    /\ jobs[1].pass = 1 /\ jobs[1].vars = e5_vars
    /\ jobs[2].pass = 2 /\ jobs[2].vars = <<e5_vars[2]>>

\* --------------------------------------------------------------- C15

\* C15: a pass starts at the cutoff's year, goes from each year to the one
\* before it and ends after the start year 1940; an app is submitted for the
\* year being examined, so the apps of a pass have strictly descending years
\* in the order of their submission.
C15_RecencyFirst ==
    [][/\ (pc' = "enum" /\ (pc # "enum" \/ e5_idx' # e5_idx)) => year' = dt_end.year
       /\ (pc = "enum" /\ pc' = "enum" /\ year' # year) => year' = year - 1
       /\ (pc = "enum" /\ pc' = "wait") => year = 1940
       /\ Len(jobs') > Len(jobs) => jobs'[Len(jobs')].year = year
       /\ \A i, j \in 1 .. Len(jobs') :
             (i < j /\ jobs'[i].pass = jobs'[j].pass) => jobs'[i].year > jobs'[j].year]_vars

\* a pass has submitted an app for the cutoff's year 1941 and then one for
\* 1940
C15_Witness ==
    /\ pc = "wait"
    /\ dt_end.year = 1941
    /\ Len(lfut) = 2
    /\ jobs[lfut[1]].year = 1941
    /\ jobs[lfut[2]].year = 1940
    /\ lfut[1] < lfut[2]

\* --------------------------------------------------------------- C16

\* a line is printed to the CSV file
Printed == csv_line' # csv_line

\* a timestamp of the Gregorian calendar at a whole hour
ClaimTimestamp(dt) ==
    /\ dt.month \in 1 .. 12
    /\ dt.hour \in 0 .. 23
    /\ dt.day \in 1 .. (IF dt.month = 2 THEN (IF ClaimLeap(dt.year) THEN 29 ELSE 28)
                        ELSE IF dt.month \in {4, 6, 9, 11} THEN 30 ELSE 31)

\* C16: the first line printed is the header, datetime followed by the
\* requested long names in request order, and it is printed once; the first
\* record is that of Jan 1 00:00 of 1940; every later record is that of the
\* hour after the record before it, across the ends of months and years; no
\* record is later than end_year, and the file is closed after a record of
\* end_year.
C16_ContinuousSeries ==
    [][/\ Printed =>
            IF csv_line.kind = "none"
            THEN /\ csv_line'.kind = "header"
                 /\ csv_line'.cols = <<"datetime">> \o e5_vars
            ELSE /\ csv_line'.kind = "record"
                 /\ ClaimTimestamp(csv_line'.dt)
                 /\ csv_line'.dt.year <= dt_end.year
                 /\ IF csv_line.kind = "header"
                    THEN csv_line'.dt = [year |-> 1940, month |-> 1, day |-> 1, hour |-> 0]
                    ELSE HoursOf(csv_line'.dt) = HoursOf(csv_line.dt) + 1
       /\ (pc # "done" /\ pc' = "done") =>
            csv_line.kind = "record" /\ csv_line.dt.year = dt_end.year]_vars

\* the record of Jan 1 00:00 of 1941 has been printed, after the 8784
\* records of 1940
C16_Witness ==
    /\ csv_line.kind = "record"
    /\ csv_line.dt = [year |-> 1941, month |-> 1, day |-> 1, hour |-> 0]
    /\ csv_year = 1941
    /\ csv_rows = 1
    /\ Len(e5_vars) = 2

\* --------------------------------------------------------------- C17

\* C17: the area of the request, [north, west, south, east], encloses the
\* requested point: south <= lat <= north and west <= lon <= east.
C17_AreaEnclosesPoint ==
    loc.pc = "request" =>
      /\ loc.area_coord[3] <= loc.latn /\ loc.latn <= loc.area_coord[1]
      /\ loc.area_coord[2] <= loc.longe /\ loc.longe <= loc.area_coord[4]

\* --------------------------------------------------------------- C18

\* the paths an app writes, copies to, renames onto or deletes: the combined
\* download, named after its first variable, and for each of its variables
\* the canonical file and the strip output
ClaimPaths(job) ==
    {<<"tempdl", job.vars[1], job.year>>}
      \cup {<<"nc", job.vars[i], job.year>> : i \in 1 .. Len(job.vars)}
      \cup {<<"tempxds", job.vars[i], job.year>> : i \in 1 .. Len(job.vars)}

\* two apps that are running at the same time are of the same pass and have
\* no path in common
NoOverlap ==
    \A i, j \in 1 .. Len(jobs) :
       (i # j /\ jobs[i].state = "running" /\ jobs[j].state = "running") =>
         /\ jobs[i].pass = jobs[j].pass
         /\ ClaimPaths(jobs[i]) \cap ClaimPaths(jobs[j]) = {}

\* a step that changes what is at a path is taken by a running app that has
\* the path among its paths
WrittenByOwner(kind, store, store_after) ==
    \A v \in DOMAIN store :
       \A y \in DOMAIN store[v] :
          store_after[v][y] # store[v][y] =>
            \E j \in 1 .. Len(jobs) :
               jobs[j].state = "running" /\ <<kind, v, y>> \in ClaimPaths(jobs[j])

\* C18: two apps that are running at the same time are of the same pass and
\* have no path in common, and every write, copy, rename and delete of a
\* path is done by the one running app that has the path.
C18_NoWriteWriteRace ==
    [][/\ NoOverlap'
       /\ WrittenByOwner("nc", files, files')
       /\ WrittenByOwner("tempdl", tempdl, tempdl')
       /\ WrittenByOwner("tempxds", tempxds, tempxds')]_vars

\* two apps for two variables each are running at once, one copying to a
\* canonical path and one renaming a strip output onto one
C18_Witness ==
    \E i, j \in 1 .. Len(jobs) :
       /\ i # j
       /\ jobs[i].state = "running" /\ jobs[i].pc = "copy"
       /\ jobs[j].state = "running" /\ jobs[j].pc = "rename"
       /\ Len(jobs[i].vars) = 2 /\ Len(jobs[j].vars) = 2

\* --------------------------------------------------------------- C19

\* download_era5 has returned normally: every pass was reported done
Returned == pc = "csv" /\ reported = SeqToSet(e5_vars)

\* C19: when download_era5 has returned normally, every requested variable
\* has, for every year from the start year through the cutoff's year, a file
\* at its canonical path that opens and holds that variable's data only.
C19_CoverageAfterFetch ==
    Returned =>
      \A v \in SeqToSet(e5_vars), y \in RunYears :
         files[v][y].kind = "valid" /\ files[v][y].vars = {v}

====
